---------------------------- MODULE Spec2Model ----------------------------
(***************************************************************************)
(* The assistant bot of homework2/main.py: validated fields, Record,       *)
(* AddressBook with the upcoming-birthday query, the command handlers      *)
(* wrapped by input_error, and the read-evaluate-print loop of main() with *)
(* load_data / save_data.                                                  *)
(*                                                                         *)
(* A Python str is a sequence of one-character strings, so that isdigit,   *)
(* len, lower, split and strptime are computed on the characters.  A       *)
(* datetime is a record [year, month, day, hour]; hour stands for the time *)
(* of day (0 is midnight, the time strptime gives to a parsed date).       *)
(* None is the empty sequence where the other values are sequences.        *)
(***************************************************************************)
EXTENDS Integers, Sequences, FiniteSets, TLC

(***************************************************************************)
(* Characters and str methods                                              *)
(***************************************************************************)
DigitChars == <<"0", "1", "2", "3", "4", "5", "6", "7", "8", "9">>

UpperChars == <<"A", "B", "C", "D", "E", "F", "G", "H", "I", "J", "K", "L", "M",
                "N", "O", "P", "Q", "R", "S", "T", "U", "V", "W", "X", "Y", "Z">>

LowerChars == <<"a", "b", "c", "d", "e", "f", "g", "h", "i", "j", "k", "l", "m",
                "n", "o", "p", "q", "r", "s", "t", "u", "v", "w", "x", "y", "z">>

SpaceChars == {" ", "\t"}

IsDigitChar(c) == \E i \in DOMAIN DigitChars : DigitChars[i] = c

DigitVal(c) == (CHOOSE i \in DOMAIN DigitChars : DigitChars[i] = c) - 1

\* str.isdigit() on the ASCII characters the lines here are made of: a
\* non-empty string of digits
IsDigit(s) == Len(s) > 0 /\ \A i \in DOMAIN s : IsDigitChar(s[i])

LowerChar(c) ==
    IF \E i \in DOMAIN UpperChars : UpperChars[i] = c
    THEN LowerChars[CHOOSE i \in DOMAIN UpperChars : UpperChars[i] = c]
    ELSE c

\* str.lower()
Lower(s) == [i \in DOMAIN s |-> LowerChar(s[i])]

RECURSIVE LStrip(_)
LStrip(s) == IF s # <<>> /\ Head(s) \in SpaceChars THEN LStrip(Tail(s)) ELSE s

RECURSIVE RStrip(_)
RStrip(s) ==
    IF s # <<>> /\ s[Len(s)] \in SpaceChars THEN RStrip(SubSeq(s, 1, Len(s) - 1)) ELSE s

\* str.strip()
Strip(s) == RStrip(LStrip(s))

\* str.split(): the maximal runs of non-whitespace characters, in order
RECURSIVE SplitFrom(_, _, _)
SplitFrom(s, i, word) ==
    IF i > Len(s)
    THEN IF word = <<>> THEN <<>> ELSE <<word>>
    ELSE IF s[i] \in SpaceChars
         THEN IF word = <<>> THEN SplitFrom(s, i + 1, <<>>)
              ELSE <<word>> \o SplitFrom(s, i + 1, <<>>)
         ELSE SplitFrom(s, i + 1, Append(word, s[i]))

Split(s) == SplitFrom(s, 1, <<>>)

RECURSIVE ToInt(_)
ToInt(s) == IF s = <<>> THEN 0 ELSE 10 * ToInt(SubSeq(s, 1, Len(s) - 1)) + DigitVal(s[Len(s)])

(***************************************************************************)
(* datetime / timedelta                                                    *)
(***************************************************************************)
IsLeap(y) == y % 4 = 0 /\ (y % 100 # 0 \/ y % 400 = 0)

DaysInMonth(y, m) ==
    IF m = 2 THEN (IF IsLeap(y) THEN 29 ELSE 28)
    ELSE IF m \in {4, 6, 9, 11} THEN 30 ELSE 31

DaysBeforeYear(y) ==
    (y - 1) * 365 + ((y - 1) \div 4) - ((y - 1) \div 100) + ((y - 1) \div 400)

RECURSIVE DaysBeforeMonth(_, _)
DaysBeforeMonth(y, m) ==
    IF m = 1 THEN 0 ELSE DaysBeforeMonth(y, m - 1) + DaysInMonth(y, m - 1)

\* date.toordinal(): 1 is 01.01.0001
Ordinal(dt) == DaysBeforeYear(dt.year) + DaysBeforeMonth(dt.year, dt.month) + dt.day

\* datetime.weekday(): Monday is 0, Sunday is 6
Weekday(dt) == (Ordinal(dt) + 6) % 7

NextDay(dt) ==
    IF dt.day < DaysInMonth(dt.year, dt.month) THEN [dt EXCEPT !.day = @ + 1]
    ELSE IF dt.month < 12 THEN [dt EXCEPT !.month = @ + 1, !.day = 1]
    ELSE [dt EXCEPT !.year = @ + 1, !.month = 1, !.day = 1]

\* dt + timedelta(days=n), n >= 0: the time of day is kept
RECURSIVE PlusDays(_, _)
PlusDays(dt, n) == IF n = 0 THEN dt ELSE PlusDays(NextDay(dt), n - 1)

\* datetime comparison a < b
Before(a, b) ==
    \/ Ordinal(a) < Ordinal(b)
    \/ Ordinal(a) = Ordinal(b) /\ a.hour < b.hour

\* a <= b
NotAfter(a, b) == ~Before(b, a)

\* dt.replace(year=y): <<>> when it raises ValueError (29 February in a common year)
ReplaceYear(dt, y) ==
    IF dt.day <= DaysInMonth(y, dt.month) THEN <<[dt EXCEPT !.year = y]>> ELSE <<>>

\* The positions of the separators of a "%d.%m.%Y" string
Dots(s) == {i \in DOMAIN s : s[i] = "."}

\* datetime.strptime(value, "%d.%m.%Y"): <<datetime>>, or <<>> when it raises
\* ValueError.  %d and %m take one or two digits, %Y exactly four.
Strptime(s) ==
    IF Cardinality(Dots(s)) # 2 THEN <<>>
    ELSE LET i == CHOOSE k \in Dots(s) : \A j \in Dots(s) : k <= j
             j == CHOOSE k \in Dots(s) : k # i
             ds == SubSeq(s, 1, i - 1)
             ms == SubSeq(s, i + 1, j - 1)
             ys == SubSeq(s, j + 1, Len(s))
         IN  IF ~(IsDigit(ds) /\ IsDigit(ms) /\ IsDigit(ys)) THEN <<>>
             ELSE IF ~(Len(ds) \in 1..2 /\ Len(ms) \in 1..2 /\ Len(ys) = 4) THEN <<>>
             ELSE IF ~(ToInt(ds) \in 1..31 /\ ToInt(ms) \in 1..12 /\ ToInt(ys) >= 1) THEN <<>>
             ELSE IF ToInt(ds) > DaysInMonth(ToInt(ys), ToInt(ms)) THEN <<>>
             ELSE <<[year |-> ToInt(ys), month |-> ToInt(ms), day |-> ToInt(ds), hour |-> 0]>>

(***************************************************************************)
(* Exceptions: <<>> is "nothing raised", otherwise <<type, message>>       *)
(***************************************************************************)
NoError == <<>>

ValueError(msg) == <<"ValueError", msg>>

(***************************************************************************)
(* Field, Phone, Birthday                                                  *)
(***************************************************************************)
PhoneLen == 10

\* Phone.__init__: the check that decides whether ValueError is raised
PhoneValid(value) == IsDigit(value) /\ Len(value) = PhoneLen

\* A Phone is an object: obj is its identity, value its digit string.  A new
\* object's identity differs from that of every object the list holds.
NewPhone(phones, value) ==
    [obj |-> CHOOSE n \in 1..(Len(phones) + 1) :
                /\ \A i \in DOMAIN phones : phones[i].obj # n
                /\ \A k \in 1..(n - 1) : \E i \in DOMAIN phones : phones[i].obj = k,
     value |-> value]

\* Field defines __init__ and __str__ only: == on two fields is object.__eq__,
\* which compares identities.
FieldEq(a, b) == a.obj = b.obj

\* x in list
ListContains(list, x) == \E i \in DOMAIN list : FieldEq(list[i], x)

\* Birthday.__init__: <<datetime>>, or <<>> when ValueError is raised
Birthday(value) == Strptime(value)

(***************************************************************************)
(* Record: [name, phones, birthday]; birthday is <<>> (None) or <<datetime>>*)
(***************************************************************************)
Record(name) == [name |-> name, phones |-> <<>>, birthday |-> <<>>]

RemoveAt(list, i) == SubSeq(list, 1, i - 1) \o SubSeq(list, i + 1, Len(list))

\* Each method gives [err, rec]: the exception raised (or NoError) and the
\* record as the call leaves it.
add_phone(rec, phone_number) ==
    IF ~PhoneValid(phone_number)
    THEN [err |-> ValueError("Phone number must contain exactly 10 digits."), rec |-> rec]
    ELSE LET phone == NewPhone(rec.phones, phone_number)
         IN  IF ~ListContains(rec.phones, phone)
             THEN [err |-> NoError, rec |-> [rec EXCEPT !.phones = Append(@, phone)]]
             ELSE [err |-> ValueError("Phone number already exists."), rec |-> rec]

remove_phone(rec, phone) ==
    IF ~PhoneValid(phone)
    THEN [err |-> ValueError("Phone number must contain exactly 10 digits."), rec |-> rec]
    ELSE LET hits == {i \in DOMAIN rec.phones : rec.phones[i].value = phone}
         IN  IF hits = {} THEN [err |-> NoError, rec |-> rec]
             ELSE LET first == CHOOSE i \in hits : \A j \in hits : i <= j
                  IN  [err |-> NoError, rec |-> [rec EXCEPT !.phones = RemoveAt(@, first)]]

\* <<phone>> for the first phone whose str() is phone_number, <<>> for None
find_phone(rec, phone_number) ==
    LET hits == {i \in DOMAIN rec.phones : rec.phones[i].value = phone_number}
    IN  IF hits = {} THEN <<>>
        ELSE <<rec.phones[CHOOSE i \in hits : \A j \in hits : i <= j]>>

edit_phone(rec, old_phone, new_phone) ==
    IF find_phone(rec, old_phone) # <<>>
    THEN LET removed == remove_phone(rec, old_phone)
         IN  IF removed.err # NoError THEN removed
             ELSE add_phone(removed.rec, new_phone)
    ELSE [err |-> ValueError("Phone number not found"), rec |-> rec]

Record_add_birthday(rec, birthday) ==
    IF Birthday(birthday) = <<>>
    THEN [err |-> ValueError("Invalid date format. Use DD.MM.YYYY"), rec |-> rec]
    ELSE [err |-> NoError, rec |-> [rec EXCEPT !.birthday = Birthday(birthday)]]

(***************************************************************************)
(* AddressBook: the dict as the sequence of its records in insertion order *)
(***************************************************************************)
AddressBook == <<>>

Keys(book) == {book[i].name : i \in DOMAIN book}

IndexOf(book, name) == CHOOSE i \in DOMAIN book : book[i].name = name

\* self.data[record.name.value] = record: a new key goes last, a known key
\* keeps its place
add_record(book, rec) ==
    IF rec.name \in Keys(book) THEN [book EXCEPT ![IndexOf(book, rec.name)] = rec]
    ELSE Append(book, rec)

\* find as self.data.get(name, Record(name)) would be: a lookup that never
\* gives None
find_default(book, name) ==
    IF name \in Keys(book) THEN <<book[IndexOf(book, name)]>> ELSE <<Record(name)>>

\* <<record>>, or <<>> for None
find(book, name) == IF name \in Keys(book) THEN <<book[IndexOf(book, name)]>> ELSE <<>>

delete(book, name) ==
    IF name \in Keys(book) THEN RemoveAt(book, IndexOf(book, name)) ELSE book

\* adjust_for_weekend with Saturday moved by one day only
adjust_for_weekend_sat1(date_obj) ==
    IF Weekday(date_obj) \in {5, 6} THEN PlusDays(date_obj, 1) ELSE date_obj

adjust_for_weekend(date_obj) ==
    IF Weekday(date_obj) = 5 THEN PlusDays(date_obj, 2)
    ELSE IF Weekday(date_obj) = 6 THEN PlusDays(date_obj, 1)
    ELSE date_obj

\* The default of get_upcoming_birthdays(days=7)
Days == 7

\* The loop without its roll to the next year
Rolled_never(birthday_this_year, today) == <<birthday_this_year>>

\* if birthday_this_year < today: replace(year=today.year + 1).  <<datetime>>,
\* or <<>> when replace raises
Rolled(birthday_this_year, today) ==
    IF Before(birthday_this_year, today)
    THEN ReplaceYear(birthday_this_year, today.year + 1)
    ELSE <<birthday_this_year>>

\* The loop of get_upcoming_birthdays from record i on: [err, list], list the
\* (record name, adjusted date) pairs appended so far
RECURSIVE UpcomingFrom(_, _, _, _, _)
UpcomingFrom(book, i, today, next_week, upcoming_birthdays) ==
    IF i > Len(book) THEN [err |-> NoError, list |-> upcoming_birthdays]
    ELSE IF book[i].birthday = <<>>
    THEN UpcomingFrom(book, i + 1, today, next_week, upcoming_birthdays)
    ELSE LET this_year == ReplaceYear(book[i].birthday[1], today.year)
         IN  IF this_year = <<>>
             THEN [err |-> ValueError("day is out of range for month"), list |-> <<>>]
             ELSE LET rolled == Rolled(this_year[1], today)
                  IN  IF rolled = <<>>
                      THEN [err |-> ValueError("day is out of range for month"), list |-> <<>>]
                      ELSE LET birthday_this_year == adjust_for_weekend(rolled[1])
                           IN  IF /\ NotAfter(today, birthday_this_year)
                                  /\ NotAfter(birthday_this_year, next_week)
                               THEN UpcomingFrom(book, i + 1, today, next_week,
                                        Append(upcoming_birthdays,
                                               <<book[i].name, birthday_this_year>>))
                               ELSE UpcomingFrom(book, i + 1, today, next_week,
                                                 upcoming_birthdays)

\* today is what datetime.today() returns
get_upcoming_birthdays(book, today, days) ==
    UpcomingFrom(book, 1, today, PlusDays(today, days), <<>>)

(***************************************************************************)
(* The command handlers.  A message is the text view.show_message prints,  *)
(* written as its template.  Each handler body gives                       *)
(* [book, shown, err, today, upcoming]: the book as the call leaves it,    *)
(* the messages shown, the exception it raises, what datetime.today()      *)
(* returned (<<>> when not called) and the list it computed.               *)
(***************************************************************************)
Outcome(book, shown, err) ==
    [book |-> book, shown |-> shown, err |-> err, today |-> <<>>, upcoming |-> <<>>]

\* name, phone, *_ = args  and the like: ValueError when args is too short
Unpack(args, n) ==
    IF Len(args) < n THEN ValueError("not enough values to unpack") ELSE NoError

add_contact_body(args, book) ==
    IF Unpack(args, 2) # NoError THEN Outcome(book, <<>>, Unpack(args, 2))
    ELSE LET name == args[1]
             phone == args[2]
             known == find(book, name) # <<>>
             record == IF known THEN find(book, name)[1] ELSE Record(name)
             book1 == IF known THEN book ELSE add_record(book, record)
             message == IF known THEN "Contact updated." ELSE "Contact added."
         IN  IF phone # <<>>
             THEN LET added == add_phone(record, phone)
                  IN  IF added.err # NoError
                      THEN Outcome(add_record(book1, added.rec), <<>>, added.err)
                      ELSE Outcome(add_record(book1, added.rec), <<message>>, NoError)
             ELSE Outcome(book1, <<message>>, NoError)

change_number_body(args, book) ==
    IF Unpack(args, 3) # NoError THEN Outcome(book, <<>>, Unpack(args, 3))
    ELSE LET name == args[1]
             old_phone == args[2]
             new_phone == args[3]
         IN  IF find(book, name) # <<>>
             THEN LET edited == edit_phone(find(book, name)[1], old_phone, new_phone)
                  IN  IF edited.err # NoError
                      THEN Outcome(add_record(book, edited.rec), <<>>, edited.err)
                      ELSE Outcome(add_record(book, edited.rec),
                                   <<"Contact has been updated.">>, NoError)
             ELSE Outcome(book, <<"No matches found. Contact not updated.">>, NoError)

show_phone_body(args, book) ==
    IF Unpack(args, 1) # NoError THEN Outcome(book, <<>>, Unpack(args, 1))
    ELSE IF find(book, args[1]) # <<>>
         THEN Outcome(book, <<"{name}'s phone number is: {phones}">>, NoError)
         ELSE Outcome(book, <<"Contact not found.">>, NoError)

add_birthday_body(args, book) ==
    IF Unpack(args, 2) # NoError THEN Outcome(book, <<>>, Unpack(args, 2))
    ELSE LET name == args[1]
             birthday == args[2]
         IN  IF find(book, name) # <<>>
             THEN LET set == Record_add_birthday(find(book, name)[1], birthday)
                  IN  IF set.err # NoError
                      THEN Outcome(add_record(book, set.rec), <<>>, set.err)
                      ELSE Outcome(add_record(book, set.rec),
                                   <<"Birthday for {name} added as {birthday}.">>, NoError)
             ELSE Outcome(book, <<"Contact not found.">>, NoError)

show_birthday_body(args, book) ==
    IF Unpack(args, 1) # NoError THEN Outcome(book, <<>>, Unpack(args, 1))
    ELSE IF find(book, args[1]) # <<>>
         THEN IF find(book, args[1])[1].birthday # <<>>
              THEN Outcome(book, <<"{name}'s birthday is on {birthday}.">>, NoError)
              ELSE Outcome(book, <<"{name} does not have a birthday set.">>, NoError)
         ELSE Outcome(book, <<"Contact not found.">>, NoError)

\* now is the value of datetime.today() during the call
birthdays_body(args, book, now) ==
    LET got == get_upcoming_birthdays(book, now, Days)
    IN  [book |-> book,
         shown |-> IF got.err # NoError THEN <<>>
                   ELSE IF got.list # <<>> THEN <<"Upcoming birthdays:{list}">>
                   ELSE <<"No upcoming birthdays in the next week.">>,
         err |-> got.err,
         today |-> <<now>>,
         upcoming |-> got.list]

\* The decorator: [out, ret, raised].  ret is what inner returns (<<>> is
\* None), raised an exception the decorator does not catch.
input_error(out) ==
    IF out.err = NoError THEN [out |-> out, ret |-> <<>>, raised |-> NoError]
    ELSE IF out.err[1] = "ValueError"
    THEN [out |-> out, ret |-> <<"ValueError: ", out.err[2]>>, raised |-> NoError]
    ELSE IF out.err[1] = "IndexError"
    THEN [out |-> out, ret |-> <<"IndexError: Insufficient arguments provided.">>,
          raised |-> NoError]
    ELSE IF out.err[1] = "KeyError"
    THEN [out |-> out, ret |-> <<"KeyError: Contact not found.">>, raised |-> NoError]
    ELSE [out |-> out, ret |-> <<>>, raised |-> out.err]

add_contact(args, book) == input_error(add_contact_body(args, book))

change_number(args, book) == input_error(change_number_body(args, book))

show_phone(args, book) == input_error(show_phone_body(args, book))

add_birthday(args, book) == input_error(add_birthday_body(args, book))

show_birthday(args, book) == input_error(show_birthday_body(args, book))

birthdays(args, book, now) == input_error(birthdays_body(args, book, now))

\* ConsoleView.show_all_contacts: one line for each record
show_all_contacts(book) == [i \in DOMAIN book |-> "Contact name: {record}"]

(***************************************************************************)
(* pickle: the blob holds the data of the object graph, not the objects'   *)
(* identities; loading builds new objects.                                 *)
(***************************************************************************)
PickleRecord(rec) ==
    [name |-> rec.name,
     phones |-> [i \in DOMAIN rec.phones |-> rec.phones[i].value],
     birthday |-> rec.birthday]

UnpickleRecord(data) ==
    [name |-> data.name,
     phones |-> [i \in DOMAIN data.phones |-> [obj |-> i, value |-> data.phones[i]]],
     birthday |-> data.birthday]

Pickle(book) == [i \in DOMAIN book |-> PickleRecord(book[i])]

Unpickle(blob) == [i \in DOMAIN blob |-> UnpickleRecord(blob[i])]

\* The file addressbook.pkl: <<>> when it does not exist, else <<blob>>
save_data(book) == <<Pickle(book)>>

\* load_data that starts from an empty book whatever the file holds
load_data_fresh(file) == AddressBook

load_data(file) == IF file = <<>> THEN AddressBook ELSE Unpickle(file[1])

(***************************************************************************)
(* main(): the command words of the elif chain                             *)
(***************************************************************************)
W_close == <<"c", "l", "o", "s", "e">>

W_exit == <<"e", "x", "i", "t">>

W_hello == <<"h", "e", "l", "l", "o">>

W_add == <<"a", "d", "d">>

W_change == <<"c", "h", "a", "n", "g", "e">>

W_phone == <<"p", "h", "o", "n", "e">>

W_add_birthday == <<"a", "d", "d", "-", "b", "i", "r", "t", "h", "d", "a", "y">>

W_show_birthday == <<"s", "h", "o", "w", "-", "b", "i", "r", "t", "h", "d", "a", "y">>

W_birthdays == <<"b", "i", "r", "t", "h", "d", "a", "y", "s">>

W_all == <<"a", "l", "l">>

W_commands == <<"c", "o", "m", "m", "a", "n", "d", "s">>

HandlerWords ==
    {W_add, W_change, W_phone, W_add_birthday, W_show_birthday, W_birthdays}

KnownWords == {W_close, W_exit, W_hello, W_all, W_commands} \cup HandlerWords

\* command, *args = user_input.split(); command = command.strip().lower()
\* <<>> when the unpacking raises ValueError (no word on the line)
CommandOf(user_input) ==
    IF Split(user_input) = <<>> THEN <<>> ELSE Lower(Strip(Head(Split(user_input))))

ArgsOf(user_input) == IF Split(user_input) = <<>> THEN <<>> ELSE Tail(Split(user_input))

\* What main makes of each line of a set of lines, computed once for the set
Unpacked(inputs) ==
    {[line |-> u, command |-> CommandOf(u), args |-> ArgsOf(u)] : u \in inputs}

\* A branch that calls the view directly: nothing is returned or raised
Plain(out) == [out |-> out, ret |-> <<>>, raised |-> NoError]

\* The branch of the elif chain taken for a command that does not quit:
\* [out, ret, raised] as input_error gives it; ret is dropped by main.
Dispatch(command, args, book, now) ==
    IF command = W_hello THEN Plain(Outcome(book, <<"How can I help you?">>, NoError))
    ELSE IF command = W_add THEN add_contact(args, book)
    ELSE IF command = W_change THEN change_number(args, book)
    ELSE IF command = W_phone THEN show_phone(args, book)
    ELSE IF command = W_add_birthday THEN add_birthday(args, book)
    ELSE IF command = W_show_birthday THEN show_birthday(args, book)
    ELSE IF command = W_birthdays THEN birthdays(args, book, now)
    ELSE IF command = W_all THEN Plain(Outcome(book, show_all_contacts(book), NoError))
    ELSE IF command = W_commands
    THEN Plain(Outcome(book, <<"Available commands: ...">>, NoError))
    ELSE Plain(Outcome(book, <<"Invalid command">>, NoError))

(***************************************************************************)
(* The state                                                               *)
(***************************************************************************)
VARIABLES
    pc,          \* "running": main waits at input(); "stopped": main returned
                 \* after close/exit; "crashed": an exception left main;
                 \* "killed": the process was killed
    book,        \* the AddressBook of main
    file,        \* addressbook.pkl: <<>> or <<blob>>
    user_input,  \* the line read last
    command,     \* main's command for that line (<<>> when the unpacking raised)
    args,        \* main's args for that line
    shown,       \* what the view printed while the last line was processed
    ret,         \* what the handler called for the last line returned
    today,       \* <<datetime.today()>> as read for the last line, <<>> if not read
    upcoming,    \* the list get_upcoming_birthdays returned for the last line
    runs         \* how many times main has been started

vars == <<pc, book, file, user_input, command, args, shown, ret, today, upcoming, runs>>

(***************************************************************************)
(* Bounds and the inputs drawn                                             *)
(***************************************************************************)
\* No record is given more phones than this
MaxPhones == 2

\* main is started at most this many times
MaxRuns == 3

Bounded(b) == \A i \in DOMAIN b : Len(b[i].phones) <= MaxPhones

Alice == <<"A", "l", "i", "c", "e">>

Bob == <<"B", "o", "b">>

P1 == <<"0", "1", "2", "3", "4", "5", "6", "7", "8", "9">>

P2 == <<"1", "1", "1", "1", "1", "1", "1", "1", "1", "1">>

P_short == <<"1", "2", "3", "4", "5">>

P_alpha == <<"1", "2", "3", "4", "5", "a", "b", "c", "d", "e">>

U_Hello == <<"H", "e", "l", "l", "o">>

U_EXIT == <<"E", "X", "I", "T">>

U_foo == <<"f", "o", "o">>

D_0311 == <<"0", "3", ".", "1", "1", ".", "1", "9", "9", "0">>

D_3104 == <<"3", "1", ".", "0", "4", ".", "2", "0", "0", "0">>

D_iso == <<"1", "9", "9", "0", "-", "1", "1", "-", "0", "3">>

D_0211 == <<"0", "2", ".", "1", "1", ".", "1", "9", "9", "0">>

D_0111 == <<"0", "1", ".", "1", "1", ".", "1", "9", "9", "0">>

D_0711 == <<"0", "7", ".", "1", "1", ".", "1", "9", "9", "0">>

D_0811 == <<"0", "8", ".", "1", "1", ".", "1", "9", "9", "0">>

D_1011 == <<"1", "0", ".", "1", "1", ".", "1", "9", "9", "0">>

D_1111 == <<"1", "1", ".", "1", "1", ".", "1", "9", "9", "0">>

D_0101 == <<"0", "1", ".", "0", "1", ".", "2", "0", "0", "0">>

D_2902 == <<"2", "9", ".", "0", "2", ".", "2", "0", "0", "0">>

\* The line that holds the words, one space between them
RECURSIVE Line(_)
Line(words) ==
    IF words = <<>> THEN <<>>
    ELSE IF Len(words) = 1 THEN words[1]
    ELSE words[1] \o <<" ">> \o Line(Tail(words))

Names == {Alice, Bob}

At(y, m, d, h) == [year |-> y, month |-> m, day |-> d, hour |-> h]

\* The lines typed in Spec
CliInputs ==
    {<<>>, <<" ", "\t">>, <<" ">> \o W_hello \o <<" ", " ">>}
    \cup {Line(<<w>>) : w \in {U_Hello, U_EXIT, U_foo, W_close, W_all, W_commands,
                               W_birthdays, W_add, W_phone, W_show_birthday}}
    \cup {Line(<<W_add, Alice>>)}
    \cup {Line(<<W_add, Alice, p>>) : p \in {P1, P2, P_short}}
    \cup {Line(<<W_add, Bob, P_alpha>>), Line(<<W_change, Alice, P1>>)}
    \cup {Line(<<W_change, Alice, P1, p>>) : p \in {P1, P2, P_alpha}}
    \cup {Line(<<W_change, Alice, P_short, P1>>), Line(<<W_change, Bob, P1, P2>>)}
    \cup {Line(<<W_phone, n>>) : n \in Names}
    \cup {Line(<<W_add_birthday, Alice>>), Line(<<W_add_birthday, Bob, D_iso>>)}
    \cup {Line(<<W_add_birthday, Alice, d>>) : d \in {D_0311, D_3104}}
    \cup {Line(<<W_show_birthday, n>>) : n \in Names}

CliLines == Unpacked(CliInputs)

\* What datetime.today() returns in Spec: Tuesday 3 November 2026, 10 o'clock
CliClock == {At(2026, 11, 3, 10)}

\* The lines typed in SpecBirthdays
BirthdayInputs ==
    {Line(<<W_birthdays>>), Line(<<W_add, Alice, P1>>), Line(<<W_add, Bob, P1>>)}
    \cup {Line(<<W_add_birthday, Alice, d>>) :
            d \in {D_0311, D_0211, D_0111, D_0711, D_1011, D_1111, D_0101, D_2902}}
    \cup {Line(<<W_add_birthday, Bob, d>>) : d \in {D_0311, D_0811, D_0101}}

BirthdayLines == Unpacked(BirthdayInputs)

\* What datetime.today() returns in SpecBirthdays, at midnight and at ten:
\* Tuesday 3 and Sunday 1 November 2026; 30 December of 2024, 2027 and 2022
\* (1 January is then a Wednesday, a Saturday, a Sunday); 25 February 2025
\* and 1 March 2024 (a leap year)
BirthdayClock ==
    {At(d[1], d[2], d[3], h) :
        d \in {<<2026, 11, 3>>, <<2026, 11, 1>>, <<2024, 12, 30>>, <<2027, 12, 30>>,
               <<2022, 12, 30>>, <<2025, 2, 25>>, <<2024, 3, 1>>},
        h \in {0, 10}}

\* The lines typed in SpecPersist
PersistInputs ==
    {<<>>, Line(<<W_close>>), Line(<<U_EXIT>>), Line(<<W_add, Alice, P1>>),
     Line(<<W_add, Bob, P1>>), Line(<<W_change, Alice, P1, P2>>),
     Line(<<W_add_birthday, Alice, D_0311>>)}

PersistLines == Unpacked(PersistInputs)

(***************************************************************************)
(* The actions                                                             *)
(***************************************************************************)
Init ==
    /\ pc = "running"
    /\ file = <<>>
    /\ book = load_data(file)
    /\ user_input = <<>>
    /\ command = <<>>
    /\ args = <<>>
    /\ shown = <<"Welcome to the assistant bot!">>
    /\ ret = <<>>
    /\ today = <<>>
    /\ upcoming = <<>>
    /\ runs = 1

\* One turn of the while loop of main: line is the line read, cmd and arg
\* what the unpacking makes of it, now what datetime.today() returns
main_loop(line, cmd, arg, now) ==
    /\ pc = "running"
    /\ user_input' = line
    /\ command' = cmd
    /\ args' = arg
    /\ runs' = runs
    /\ IF cmd = <<>>
       THEN \* command, *args = [] raises ValueError, which nothing catches
            /\ pc' = "crashed"
            /\ shown' = <<>>
            /\ ret' = <<>>
            /\ today' = <<>>
            /\ upcoming' = <<>>
            /\ UNCHANGED <<book, file>>
       ELSE IF cmd \in {W_close, W_exit}
       THEN /\ file' = save_data(book)
            /\ shown' = <<"Good bye">>
            /\ pc' = "stopped"
            /\ ret' = <<>>
            /\ today' = <<>>
            /\ upcoming' = <<>>
            /\ book' = book
       ELSE \E done \in {Dispatch(cmd, arg, book, now)} :
                /\ Bounded(done.out.book)
                /\ book' = done.out.book
                /\ shown' = done.out.shown
                /\ ret' = done.ret
                /\ today' = done.out.today
                /\ upcoming' = done.out.upcoming
                /\ pc' = IF done.raised = NoError THEN "running" ELSE "crashed"
                /\ file' = file

NoClock == At(1, 1, 1, 0)

Turn(u, now) == main_loop(u.line, u.command, u.args, now)

\* One action for each branch of the loop: a line of lines is read whose
\* command selects the branch
Blank(lines) ==
    \E u \in lines :
        /\ u.command = <<>>
        /\ Turn(u, NoClock)

Quit(lines) ==
    \E u \in lines :
        /\ u.command \in {W_close, W_exit}
        /\ Turn(u, NoClock)

Hello(lines) ==
    \E u \in lines :
        /\ u.command = W_hello
        /\ Turn(u, NoClock)

Add(lines) ==
    \E u \in lines :
        /\ u.command = W_add
        /\ Turn(u, NoClock)

Change(lines) ==
    \E u \in lines :
        /\ u.command = W_change
        /\ Turn(u, NoClock)

Phone(lines) ==
    \E u \in lines :
        /\ u.command = W_phone
        /\ Turn(u, NoClock)

AddBirthday(lines) ==
    \E u \in lines :
        /\ u.command = W_add_birthday
        /\ Turn(u, NoClock)

ShowBirthday(lines) ==
    \E u \in lines :
        /\ u.command = W_show_birthday
        /\ Turn(u, NoClock)

Birthdays(lines, clock) ==
    \E u \in lines, now \in clock :
        /\ u.command = W_birthdays
        /\ Turn(u, now)

All(lines) ==
    \E u \in lines :
        /\ u.command = W_all
        /\ Turn(u, NoClock)

Commands(lines) ==
    \E u \in lines :
        /\ u.command = W_commands
        /\ Turn(u, NoClock)

Invalid(lines) ==
    \E u \in lines :
        /\ u.command \notin KnownWords \cup {<<>>}
        /\ Turn(u, NoClock)

Next ==
    \/ Blank(CliLines)
    \/ Quit(CliLines)
    \/ Hello(CliLines)
    \/ Add(CliLines)
    \/ Change(CliLines)
    \/ Phone(CliLines)
    \/ AddBirthday(CliLines)
    \/ ShowBirthday(CliLines)
    \/ Birthdays(CliLines, CliClock)
    \/ All(CliLines)
    \/ Commands(CliLines)
    \/ Invalid(CliLines)

Spec == Init /\ [][Next]_vars

NextBirthdays ==
    \/ Add(BirthdayLines)
    \/ AddBirthday(BirthdayLines)
    \/ Birthdays(BirthdayLines, BirthdayClock)

SpecBirthdays == Init /\ [][NextBirthdays]_vars

\* The process is killed while main waits for a line
Kill ==
    /\ pc = "running"
    /\ pc' = "killed"
    /\ UNCHANGED <<book, file, user_input, command, args, shown, ret, today, upcoming, runs>>

\* The program is started again: main up to the first input().  book, until
\* then what the run that ended left behind, is what load_data returns.
Start ==
    /\ pc # "running"
    /\ runs < MaxRuns
    /\ runs' = runs + 1
    /\ pc' = "running"
    /\ book' = load_data(file)
    /\ shown' = <<"Welcome to the assistant bot!">>
    /\ user_input' = <<>>
    /\ command' = <<>>
    /\ args' = <<>>
    /\ ret' = <<>>
    /\ today' = <<>>
    /\ upcoming' = <<>>
    /\ file' = file

NextPersist ==
    \/ Blank(PersistLines)
    \/ Quit(PersistLines)
    \/ Add(PersistLines)
    \/ Change(PersistLines)
    \/ AddBirthday(PersistLines)
    \/ Kill
    \/ Start

SpecPersist == Init /\ [][NextPersist]_vars

(***************************************************************************)
(* The claims                                                              *)
(***************************************************************************)
Holds(rec, value) == \E i \in DOMAIN rec.phones : rec.phones[i].value = value

HoldsTwice(rec) ==
    \E i, j \in DOMAIN rec.phones : i # j /\ rec.phones[i].value = rec.phones[j].value

\* How many words each handler unpacks from args
Required(cmd) ==
    IF cmd = W_change THEN 3
    ELSE IF cmd \in {W_add, W_add_birthday} THEN 2
    ELSE IF cmd \in {W_phone, W_show_birthday} THEN 1
    ELSE 0

\* C1: no Record ever holds two phones with the same digit string (the
\* second `add Alice 0123456789` fails and Alice keeps exactly one phone).
C1_NoDuplicatePhone == \A i \in DOMAIN book : ~HoldsTwice(book[i])

\* C2: the main loop ends only after a close or exit command: whatever else
\* is typed, an empty line included, the loop goes on to the next command.
C2_LoopEndsOnlyOnQuit == pc # "running" => command \in {W_close, W_exit}

\* C3: a command that ends in a ValidationError or has too few arguments
\* shows a one-line error message before the next command is read; for too
\* few arguments it is the "insufficient arguments" message.
C3_ErrorMessageShown ==
    /\ ret # <<>> => Len(shown) = 1
    /\ (command \in HandlerWords /\ Len(args) < Required(command))
           => shown = <<"IndexError: Insufficient arguments provided.">>

\* C4: a change of old to new (two different numbers) on a Record that does
\* not hold old fails with "Phone number not found" and leaves the phones as
\* they were; when the change succeeds, old is absent afterwards and new is
\* present.
C4_EditPhone ==
    [][(/\ command' = W_change
        /\ Len(args') >= 3
        /\ args'[1] \in Keys(book)
        /\ args'[2] # args'[3])
       => LET before == find(book, args'[1])[1]
              after == find(book', args'[1])[1]
          IN  /\ ~Holds(before, args'[2])
                    => /\ ret' = <<"ValueError: ", "Phone number not found">>
                       /\ after = before
              /\ shown' = <<"Contact has been updated.">>
                    => /\ ~Holds(after, args'[2])
                       /\ Holds(after, args'[3])]_vars

\* C8: change, phone, add-birthday and show-birthday on a name the book
\* does not hold, with enough arguments, show the not-found message (for
\* change "No matches found. Contact not updated."), raise nothing and
\* leave the book as it was.
C8_UnknownContact ==
    [][(/\ command' \in {W_change, W_phone, W_add_birthday, W_show_birthday}
        /\ Len(args') >= Required(command')
        /\ args'[1] \notin Keys(book))
       => /\ book' = book
          /\ ret' = <<>>
          /\ pc' = "running"
          /\ shown' = IF command' = W_change
                      THEN <<"No matches found. Contact not updated.">>
                      ELSE <<"Contact not found.">>]_vars

\* C8 happens: a change naming an unknown contact has been answered
C8_Witness ==
    /\ command = W_change
    /\ Len(args) >= 3
    /\ args[1] \notin Keys(book)
    /\ shown = <<"No matches found. Contact not updated.">>

\* C10: a command that ends in an error leaves the book as it was before
\* the command.
C10_ErrorLeavesBook == [][ret' # <<>> => book' = book]_vars

(***************************************************************************)
(* The claims on the upcoming-birthday query, stated on calendar dates     *)
(***************************************************************************)
\* The month and day of birthday in year y (a datetime at midnight)
InYear(birthday, y) == [birthday EXCEPT !.year = y]

\* The weekend shift as the claims state it
WeekendShift(p) ==
    IF Weekday(p) = 5 THEN PlusDays(p, 2)
    ELSE IF Weekday(p) = 6 THEN PlusDays(p, 1)
    ELSE p

\* The adjusted date as the claims state it: the projection onto today's
\* year, onto the next year when that is a calendar date before today, then
\* the weekend shift
AdjustedDate(birthday, now) ==
    IF Ordinal(InYear(birthday, now.year)) < Ordinal(now)
    THEN WeekendShift(InYear(birthday, now.year + 1))
    ELSE WeekendShift(InYear(birthday, now.year))

Listed(name, date) == \E k \in DOMAIN upcoming : upcoming[k] = <<name, date>>

IsFeb29(birthday) == birthday.month = 2 /\ birthday.day = 29

\* C5: the query lists a record with a birthday if and only if its adjusted
\* date, as a calendar date, lies in [today, today + 7], whatever the time of
\* day: a birthday that is today is listed, and so is one on today + 7.
C5_InclusiveRange ==
    today # <<>> =>
        \A i \in DOMAIN book :
            (book[i].birthday # <<>> /\ ~IsFeb29(book[i].birthday[1])) =>
                LET adjusted == AdjustedDate(book[i].birthday[1], today[1])
                IN  (/\ Ordinal(today[1]) <= Ordinal(adjusted)
                     /\ Ordinal(adjusted) <= Ordinal(today[1]) + Days)
                    <=> Listed(book[i].name, adjusted)

\* C6: every listed date is the record's birthday in this year or the next,
\* moved by 2 days from a Saturday, by 1 day from a Sunday and not at all
\* from another weekday; so every listed date is a Monday to Friday.
C6_WeekendShift ==
    today # <<>> =>
        \A k \in DOMAIN upcoming :
            LET birthday == find(book, upcoming[k][1])[1].birthday[1]
                date == upcoming[k][2]
            IN  /\ Weekday(date) \in 0..4
                /\ \E y \in {today[1].year, today[1].year + 1} :
                      LET p == InYear(birthday, y)
                      IN  /\ Weekday(p) = 5 => Ordinal(date) = Ordinal(p) + 2
                          /\ Weekday(p) = 6 => Ordinal(date) = Ordinal(p) + 1
                          /\ Weekday(p) \in 0..4 => date = p

\* C6 happens: one birthday listed was moved from a Saturday, another from a
\* Sunday
C6_Witness ==
    /\ today # <<>>
    /\ \E k \in DOMAIN upcoming :
          LET birthday == find(book, upcoming[k][1])[1].birthday[1]
          IN  /\ Weekday(InYear(birthday, upcoming[k][2].year)) = 5
              /\ upcoming[k][2].day # birthday.day
    /\ \E k \in DOMAIN upcoming :
          LET birthday == find(book, upcoming[k][1])[1].birthday[1]
          IN  /\ Weekday(InYear(birthday, upcoming[k][2].year)) = 6
              /\ upcoming[k][2].day # birthday.day

Persisted(f) == IF f = <<>> THEN <<>> ELSE f[1]

\* C9: the file changes only at a close or exit command, and then holds the
\* whole book of that moment; a start gives main the book the file holds
\* (an empty one when there is no file).  So a start after a kill or a crash
\* brings back the book of the last close or exit, and a start after close
\* or exit the book the run ended with.
C9_PersistedState ==
    [][/\ file' # file =>
            /\ pc = "running"
            /\ pc' = "stopped"
            /\ command' \in {W_close, W_exit}
       /\ (pc = "running" /\ pc' = "stopped") => file' = <<Pickle(book)>>
       /\ (pc # "running" /\ pc' = "running") =>
            /\ Pickle(book') = Persisted(file)
            /\ pc = "stopped" => Pickle(book') = Pickle(book)]_vars

\* C9 happens: a run that changed the book saved at an earlier close or exit
\* was killed, and the program can be started again
C9_Witness ==
    /\ pc = "killed"
    /\ file # <<>>
    /\ Pickle(book) # Persisted(file)
    /\ runs < MaxRuns

=============================================================================
